---- MODULE Spec2Model ----
(***************************************************************************)
(* A model of habu: the URI template expansion engine                      *)
(* (src/habu/uri_parsing.py) and the HAL document model                    *)
(* (src/habu/__init__.py).                                                 *)
(*                                                                         *)
(* Python strings are TLA+ strings, read with Len, SubSeq and \o.          *)
(* A Python value is a record [t, v]: t is its type and v a sequence of    *)
(* strings: the text of a str, the elements of a list, the flattened       *)
(* key, value, key, value entries of a dict, nothing for None.             *)
(* An exception is the err field of a result: "none" when the call         *)
(* returned.                                                               *)
(***************************************************************************)
EXTENDS Integers, Sequences, FiniteSets, TLC

VARIABLES
    pc,            \* uri engine: "ready" before the call, "done" after it
    op,            \* uri engine: the function the caller applies
    text,          \* uri engine: the href (parse_uri) or the template
    args,          \* uri engine: the positional arguments supplied
    kwargs,        \* uri engine: the keyed arguments supplied
    ret,           \* uri engine: what the call returned or raised
    request_func,  \* the module variable _request_func
    history,       \* the arguments of the set_request_func calls made so far
    fetched,       \* the calls the fetch functions received, in order
    last,          \* the latest call into habu: its inputs and its outcome
    source,        \* the raw document as the caller first held it
    doc,           \* the caller's raw document object, as it is now
    built,         \* what each Resource(doc) construction so far produced
    fallback,      \* the module variable _embedded_empty_list_fallback
    requested,     \* the bool the latest use_missing_embedded_fallback call asked for
    resource,      \* a Resource the caller holds: its links, embedded and _state
    wrapper,       \* a DictionaryWrapper the caller holds
    outcome        \* the latest call on resource or wrapper: inputs and result

uriVars == <<pc, op, text, args, kwargs, ret>>
hookVars == <<request_func, history, fetched, last>>
resVars == <<source, doc, built>>
stateVars == <<fallback, requested, resource, wrapper, outcome>>
vars == <<pc, op, text, args, kwargs, ret, request_func, history, fetched, last,
          source, doc, built, fallback, requested, resource, wrapper, outcome>>

-----------------------------------------------------------------------------
(* Python values *)

PyStr(s) == [t |-> "str", v |-> <<s>>]
PyList(l) == [t |-> "list", v |-> l]
PyDict(flat) == [t |-> "dict", v |-> flat]
PyNone == [t |-> "none", v |-> <<>>]
PyInt(n) == [t |-> "int", v |-> <<n>>]
PyBool(b) == [t |-> "bool", v |-> <<b>>]

\* str(value), as "%s" formats it, for the values the model holds as atoms
StrOf(val) == IF val.t = "str" THEN val.v[1] ELSE "None"

-----------------------------------------------------------------------------
(* str methods *)

StartsWithAt(s, i, p) ==
    /\ i >= 1
    /\ i + Len(p) - 1 <= Len(s)
    /\ SubSeq(s, i, i + Len(p) - 1) = p

\* `p in s`
Contains(s, p) == \E i \in 1..Len(s) : StartsWithAt(s, i, p)

\* s.find(p) from position i, 1-based; 0 when absent
Find(s, p, i) ==
    LET hits == {j \in i..Len(s) : StartsWithAt(s, j, p)}
    IN  IF hits = {} THEN 0 ELSE CHOOSE j \in hits : \A k \in hits : j <= k

\* s[i:], 1-based
From(s, i) == SubSeq(s, i, Len(s))

\* s.replace(old, new): every non-overlapping occurrence, left to right
RECURSIVE Replace(_, _, _)
Replace(s, old, new) ==
    LET i == Find(s, old, 1)
    IN  IF i = 0 THEN s
        ELSE SubSeq(s, 1, i - 1) \o new \o Replace(From(s, i + Len(old)), old, new)

\* s.split(sep)
RECURSIVE Split(_, _)
Split(s, sep) ==
    LET i == Find(s, sep, 1)
    IN  IF i = 0 THEN <<s>>
        ELSE <<SubSeq(s, 1, i - 1)>> \o Split(From(s, i + Len(sep)), sep)

\* sep.join(strs)
RECURSIVE Join(_, _)
Join(strs, sep) ==
    IF strs = <<>> THEN ""
    ELSE IF Len(strs) = 1 THEN strs[1]
    ELSE strs[1] \o sep \o Join(Tail(strs), sep)

Digits == <<"0", "1", "2", "3", "4", "5", "6", "7", "8", "9">>
IsDigit(c) == \E d \in 1..10 : Digits[d] = c
DigitVal(c) == (CHOOSE d \in 1..10 : Digits[d] = c) - 1

RECURSIVE NatOf(_)
NatOf(s) ==
    IF Len(s) = 0 THEN 0
    ELSE 10 * NatOf(SubSeq(s, 1, Len(s) - 1)) + DigitVal(SubSeq(s, Len(s), Len(s)))

\* int(s): [ok, n]; ok is FALSE where int raises ValueError
IntOf(s) ==
    LET neg == StartsWithAt(s, 1, "-")
        body == IF neg \/ StartsWithAt(s, 1, "+") THEN From(s, 2) ELSE s
        ok == Len(body) > 0 /\ \A i \in 1..Len(body) : IsDigit(SubSeq(body, i, i))
    IN  IF ~ok THEN [ok |-> FALSE, n |-> 0]
        ELSE [ok |-> TRUE, n |-> IF neg THEN 0 - NatOf(body) ELSE NatOf(body)]

-----------------------------------------------------------------------------
(* uri_parsing.py: unpack and text_limit *)

Chars(s) == [i \in 1..Len(s) |-> SubSeq(s, i, i)]
StrAtoms(strs) == [i \in 1..Len(strs) |-> PyStr(strs[i])]
Min(a, b) == IF a < b THEN a ELSE b

\* the "key=val" strings of a dict's entries, in the dict's order
DictPairs(flat) ==
    [i \in 1..(Len(flat) \div 2) |-> flat[2 * i - 1] \o "=" \o flat[2 * i]]

\* a faulty variant: a list or a dict is taken apart whatever explode says
unpack_always_exploded(value, explode) ==
    IF value.t = "list" THEN StrAtoms(value.v)
    ELSE IF value.t = "dict" THEN StrAtoms(DictPairs(value.v))
    ELSE <<value>>

\* unpack(value, explode): the list of values it returns
unpack(value, explode) ==
    IF value.t = "list"
    THEN IF explode THEN StrAtoms(value.v) ELSE <<PyStr(Join(value.v, ","))>>
    ELSE IF value.t = "dict"
    THEN IF explode THEN StrAtoms(DictPairs(value.v)) ELSE StrAtoms(value.v)
    ELSE <<value>>

\* text_limit(limit, value): [err, s]
text_limit(limit, value) ==
    IF value.t # "str" THEN [err |-> "TypeError", s |-> ""]
    ELSE IF limit # 0 /\ limit > 0
    THEN [err |-> "none", s |-> SubSeq(value.v[1], 1, Min(limit, Len(value.v[1])))]
    ELSE [err |-> "none", s |-> value.v[1]]

-----------------------------------------------------------------------------
(* uri_parsing.py: value_extraction and key_value_extraction *)

NoKwargs == [k \in {} |-> PyNone]

\* kwargs.pop(name, None)
Pop(kw, name) == [k \in (DOMAIN kw) \ {name} |-> kw[k]]

\* tuple(a for a in args if a != args[0])
DropEqualToFirst(a) == SelectSeq(a, LAMBDA x : x # a[1])

\* list.remove(x): the first element equal to x goes
RemoveFirst(l, x) ==
    LET i == CHOOSE j \in 1..Len(l) : l[j] = x /\ \A k \in 1..(j - 1) : l[k] # x
    IN  SubSeq(l, 1, i - 1) \o SubSeq(l, i + 1, Len(l))

Extracted(values, a, kw, ph) ==
    [err |-> "none", values |-> values, args |-> a, kwargs |-> kw, remaining |-> ph]
ExtractRaise(e, a, kw) ==
    [err |-> e, values |-> <<>>, args |-> a, kwargs |-> kw, remaining |-> <<>>]

\* "%s=%s" % (placeholder, item) for each item
KeyValuePairs(name, items) ==
    [i \in 1..Len(items) |-> PyStr(name \o "=" \o StrOf(items[i]))]

\* The `for placeholder in placeholders` loop of both extractors, from list
\* position i on. ph is the one list object that placeholders and
\* remaining_placeholders both name, so a remove() shortens the list the loop
\* walks. kv is TRUE in key_value_extraction, which formats "name=value".
RECURSIVE ExtractLoop(_, _, _, _, _, _)
ExtractLoop(kv, ph, i, values, a, kw) ==
    IF i > Len(ph) THEN Extracted(values, a, kw, ph)
    ELSE
    LET original == ph[i]
    IN
    IF Len(original) = 0 THEN ExtractRaise("IndexError", a, kw)
    ELSE
    LET has_explode == SubSeq(original, Len(original), Len(original)) = "*"
        has_limiter == Contains(original, ":")
        stripped == IF has_explode THEN SubSeq(original, 1, Len(original) - 1)
                    ELSE original
        parts == Split(stripped, ":")
        placeholder == IF has_limiter THEN parts[1] ELSE stripped
        amount == IF has_limiter THEN IntOf(parts[2]) ELSE [ok |-> TRUE, n |-> 0]
        from_args == a # <<>> /\ a[1].t # "none"
        from_kwargs == ~from_args /\ placeholder \in DOMAIN kw
                         /\ kw[placeholder].t # "none"
        bound == IF from_args THEN a[1] ELSE kw[placeholder]
        limited == text_limit(amount.n, bound)
        items == IF has_limiter THEN <<PyStr(limited.s)>>
                 ELSE unpack(bound, has_explode)
        found == IF kv THEN KeyValuePairs(placeholder, items) ELSE items
    IN
    IF has_explode /\ has_limiter THEN ExtractRaise("ValueError", a, kw)
    ELSE IF ~amount.ok THEN ExtractRaise("ValueError", a, kw)
    ELSE IF ~from_args /\ ~from_kwargs
    THEN ExtractLoop(kv, ph, i + 1, values, a, kw)
    ELSE IF has_limiter /\ limited.err # "none" THEN ExtractRaise(limited.err, a, kw)
    ELSE ExtractLoop(kv, RemoveFirst(ph, original), i + 1, values \o found,
                     IF from_args THEN DropEqualToFirst(a) ELSE a,
                     IF from_args THEN kw ELSE Pop(kw, placeholder))

\* value_extraction(template, *args, **kwargs)
value_extraction(template, a, kw) ==
    LET placeholders == Split(template, ",")
    IN  IF a = <<>> /\ DOMAIN kw = {}
        THEN IF placeholders # <<>> THEN ExtractRaise("ValueError", a, kw)
             ELSE Extracted(<<>>, a, kw, <<>>)
        ELSE ExtractLoop(FALSE, placeholders, 1, <<>>, a, kw)

\* key_value_extraction(template, *args, **kwargs); the "" it returns for
\* no arguments is an empty sequence to everything that reads it
key_value_extraction(template, a, kw) ==
    IF a = <<>> /\ DOMAIN kw = {}
    THEN Extracted(<<>>, a, kw, <<>>)
    ELSE ExtractLoop(TRUE, Split(template, ","), 1, <<>>, a, kw)

-----------------------------------------------------------------------------
(* uri_parsing.py: the operator expanders *)

Expanded(s, r) == [err |-> r.err, text |-> s, args |-> r.args, kwargs |-> r.kwargs]

\* the str elements of a list of values; sep.join raises TypeError on others
AllStr(values) == \A i \in 1..Len(values) : values[i].t = "str"
Texts(values) == [i \in 1..Len(values) |-> values[i].v[1]]

\* prefix + sep.join(values) over what an extractor returned
Joined(prefix, sep, r) ==
    IF r.err # "none" THEN Expanded("", r)
    ELSE IF ~AllStr(r.values) THEN Expanded("", [r EXCEPT !.err = "TypeError"])
    ELSE Expanded(prefix \o Join(Texts(r.values), sep), r)

string_expansion(template, a, kw) == Joined("", ",", value_extraction(template, a, kw))

\* ",".join(value) runs over the str that string_expansion returned
fragment_expansion(template, a, kw) ==
    LET r == string_expansion(template, a, kw)
    IN  IF r.err # "none" THEN r
        ELSE [r EXCEPT !.text = "#" \o Join(Chars(r.text), ",")]

dot_expansion(template, a, kw) == Joined("", ".", value_extraction(template, a, kw))

path_segment_expansion(template, a, kw) ==
    Joined("/", ",", value_extraction(template, a, kw))

\* a pair whose value part is empty is replaced by its name
BareNames(values) ==
    [i \in 1..Len(values) |->
        LET parts == Split(values[i].v[1], "=")
        IN  IF Len(parts[2]) = 0 THEN PyStr(parts[1]) ELSE values[i]]

path_parameter_expansion(template, a, kw) ==
    LET r == key_value_extraction(template, a, kw)
    IN  IF r.err # "none" THEN Expanded("", r)
        ELSE Joined(";", ",", [r EXCEPT !.values = BareNames(r.values)])

\* a faulty variant: the pairs joined with "," as the other expanders join
form_style_expansion_comma(template, a, kw) ==
    Joined("?", ",", key_value_extraction(template, a, kw))

form_style_expansion(template, a, kw) ==
    Joined("?", "&", key_value_extraction(template, a, kw))

form_style_continuation(template, a, kw) ==
    Joined("&", "&", key_value_extraction(template, a, kw))

prefix_types == {"+", "#", ".", "/", ";", "?", "&"}

expand_placeholder(placeholder, a, kw) ==
    LET first == SubSeq(placeholder, 1, 1)
        rest == From(placeholder, 2)
    IN  IF first = "+" THEN string_expansion(rest, a, kw)
        ELSE IF first = "#" THEN fragment_expansion(rest, a, kw)
        ELSE IF first = "." THEN dot_expansion(rest, a, kw)
        ELSE IF first = "/" THEN path_segment_expansion(rest, a, kw)
        ELSE IF first = ";" THEN path_parameter_expansion(rest, a, kw)
        ELSE IF first = "?" THEN form_style_expansion(rest, a, kw)
        ELSE IF first = "&" THEN form_style_continuation(rest, a, kw)
        ELSE string_expansion(placeholder, a, kw)

-----------------------------------------------------------------------------
(* uri_parsing.py: parse_uri *)

\* re.compile(r'{([^}]+)}').findall(href): the groups, left to right
RECURSIVE FindAll(_)
FindAll(href) ==
    LET open == Find(href, "{", 1)
        close == IF open = 0 THEN 0 ELSE Find(href, "}", open + 1)
    IN  IF open = 0 \/ close = 0 THEN <<>>
        ELSE IF close = open + 1 THEN FindAll(From(href, open + 1))
        ELSE <<SubSeq(href, open + 1, close - 1)>> \o FindAll(From(href, close + 1))

\* the loop over the groups found, from group i on
RECURSIVE ParseLoop(_, _, _, _, _)
ParseLoop(placeholders, i, href, a, kw) ==
    IF i > Len(placeholders)
    THEN [err |-> "none", href |-> href, args |-> a, kwargs |-> kw]
    ELSE LET Substitute(e) ==
                 IF e.err # "none"
                 THEN [err |-> e.err, href |-> href, args |-> a, kwargs |-> kw]
                 ELSE ParseLoop(placeholders, i + 1,
                                Replace(href, "{" \o placeholders[i] \o "}", e.text),
                                e.args, e.kwargs)
         IN  Substitute(expand_placeholder(placeholders[i], a, kw))

parse_uri(href, a, kw) ==
    IF ~Contains(href, "{") \/ ~Contains(href, "}")
    THEN [err |-> "none", href |-> href, args |-> a, kwargs |-> kw]
    ELSE ParseLoop(FindAll(href), 1, href, a, kw)

-----------------------------------------------------------------------------
(* Raw documents: JSON values as Python holds them. A value is a record    *)
(* [j, s, e]: j is its type, s the text of a scalar, e the elements of a   *)
(* list or the [k, val] entries of a dict in the dict's key order.         *)

JStr(s) == [j |-> "str", s |-> s, e |-> <<>>]
JInt(s) == [j |-> "int", s |-> s, e |-> <<>>]
JBool(b) == [j |-> "bool", s |-> IF b THEN "True" ELSE "False", e |-> <<>>]
JNull == [j |-> "none", s |-> "None", e |-> <<>>]
JObj(entries) == [j |-> "dict", s |-> "", e |-> entries]
JArr(elems) == [j |-> "list", s |-> "", e |-> elems]
KV(k, val) == [k |-> k, val |-> val]

\* `key in d`, d[key], d.pop(key, None), for a dict d
Has(d, key) == \E i \in 1..Len(d.e) : d.e[i].k = key
Get(d, key) == d.e[CHOOSE i \in 1..Len(d.e) : d.e[i].k = key].val
Without(d, key) == [d EXCEPT !.e = SelectSeq(d.e, LAMBDA en : en.k # key)]
\* d[key] = val for a key d holds: the entry keeps its place
Store(d, key, val) ==
    [d EXCEPT !.e = [i \in 1..Len(d.e) |->
                        IF d.e[i].k = key THEN KV(key, val) ELSE d.e[i]]]

\* the truth value Python gives a value: `if value`, `not value`
Truthy(val) ==
    IF val.j \in {"dict", "list", "DictionaryWrapper"} THEN val.e # <<>>
    ELSE IF val.j = "str" THEN val.s # ""
    ELSE IF val.j = "int" THEN val.s # "0"
    ELSE IF val.j = "bool" THEN val.s = "True"
    ELSE FALSE

\* mapping[key] = val on a Python dict held as a function
Put(f, key, val) == [x \in (DOMAIN f) \cup {key} |-> IF x = key THEN val ELSE f[x]]
EmptyDict == [x \in {} |-> JNull]

-----------------------------------------------------------------------------
(* __init__.py: Link and CURIE *)

LinkAttrs ==
    {"_documentation", "_rel", "deprecation", "href", "hreflang", "name",
     "profile", "templated", "title", "type"}

\* Link.__init__
NewLink ==
    [a \in LinkAttrs |->
        CASE a = "_documentation" -> JNull
          [] a = "_rel" -> JStr("")
          [] a = "deprecation" -> JNull
          [] a = "href" -> JStr("")
          [] a = "hreflang" -> JStr("en-US")
          [] a = "name" -> JStr("")
          [] a = "profile" -> JStr("")
          [] a = "templated" -> JBool(FALSE)
          [] a = "title" -> JStr("")
          [] a = "type" -> JStr("application/hal+json")]

\* a faulty variant: every recognized field copied but href
Link_unserialize_without_href(l, dict_) ==
    IF dict_.j # "dict" THEN [err |-> "TypeError", link |-> l]
    ELSE [err |-> "none",
          link |-> [a \in LinkAttrs |->
                       IF a # "href" /\ Has(dict_, a) THEN Get(dict_, a) ELSE l[a]]]

\* Link.unserialize(dict_): [err, link]
Link_unserialize(l, dict_) ==
    IF dict_.j # "dict" THEN [err |-> "TypeError", link |-> l]
    ELSE [err |-> "none",
          link |-> [a \in LinkAttrs |-> IF Has(dict_, a) THEN Get(dict_, a) ELSE l[a]]]

\* a faulty variant: the name composed, the href left with its {rel}
CURIE_resolve_unsubstituted(self, link) ==
    IF self["href"].j # "str" \/ link["_rel"].j # "str"
    THEN [err |-> IF self["href"].j # "str" THEN "AttributeError" ELSE "TypeError",
          link |-> self]
    ELSE [err |-> "none",
          link |-> [self EXCEPT
                      !["templated"] = JBool(FALSE),
                      !["name"] = JStr(self["name"].s \o ":" \o link["_rel"].s)]]

\* CURIE.resolve(link): [err, link]; self.__dict__ holds every Link attribute,
\* so unserializing it copies the CURIE whole
CURIE_resolve(self, link) ==
    IF self["href"].j # "str" \/ link["_rel"].j # "str"
    THEN [err |-> IF self["href"].j # "str" THEN "AttributeError" ELSE "TypeError",
          link |-> self]
    ELSE [err |-> "none",
          link |-> [self EXCEPT
                      !["href"] = JStr(Replace(self["href"].s, "{rel}", link["_rel"].s)),
                      !["templated"] = JBool(FALSE),
                      !["name"] = JStr(self["name"].s \o ":" \o link["_rel"].s)]]

-----------------------------------------------------------------------------
(* __init__.py: LinkContainer *)

\* LinkContainer.__init__; err is the exception a later call raised
NewLinkContainer == [err |-> "none", links |-> EmptyDict, curies |-> EmptyDict]

LCRaise(lc, e) == [lc EXCEPT !.err = e]

\* name.split(":") of a curie-prefixed relation name
CurieParts(name) == Split(name, ":")

\* the Link built for relation `name` of curie `curie_name` from obj, with its
\* documentation link when the CURIE is in the lookup by now: [err, link]
BuildLink(lc, curie_name, name, obj) ==
    LET Documented(u, d) ==
            IF d.err # "none" THEN [err |-> d.err, link |-> u.link]
            ELSE [err |-> "none", link |-> [u.link EXCEPT !["_documentation"] = d.link]]
        Resolved(u) ==
            IF u.err # "none" THEN u
            ELSE IF curie_name # "" /\ curie_name \in DOMAIN lc.curies
            THEN Documented(u, CURIE_resolve(lc.curies[curie_name], u.link))
            ELSE u
    IN  Resolved(Link_unserialize([NewLink EXCEPT !["_rel"] = JStr(name)], obj))

\* LinkContainer._extract_from_dict(name, obj)
LinkContainer_extract_from_dict(lc, name, obj) ==
    LET Keep(rel, b) ==
            IF b.err # "none" THEN LCRaise(lc, b.err)
            ELSE [lc EXCEPT !.links = Put(lc.links, rel, b.link)]
        Prefixed(parts) ==
            IF Len(parts) # 2 THEN LCRaise(lc, "ValueError")
            ELSE Keep(parts[2], BuildLink(lc, parts[1], parts[2], obj))
    IN  IF ~Truthy(obj) THEN lc
        ELSE IF name = "curies" THEN LCRaise(lc, "TypeError")
        ELSE IF Contains(name, ":") THEN Prefixed(CurieParts(name))
        ELSE Keep(name, BuildLink(lc, "", name, obj))

\* the loop over a `curies` list, from element i on
RECURSIVE UnserializeCuries(_, _, _)
UnserializeCuries(lc, list_, i) ==
    IF i > Len(list_.e) THEN lc
    ELSE
    LET curie_dict == list_.e[i]
        Register(c) == [lc EXCEPT !.curies = Put(lc.curies, c["name"].s, c)]
    IN  IF curie_dict.j # "dict" THEN LCRaise(lc, "TypeError")
        ELSE IF ~Has(curie_dict, "name") \/ ~Has(curie_dict, "href")
        THEN LCRaise(lc, "ValueError")
        ELSE IF Get(curie_dict, "href").j # "str" THEN LCRaise(lc, "TypeError")
        ELSE UnserializeCuries(
                 Register(Link_unserialize([NewLink EXCEPT !["_rel"] = JStr("curies")],
                                           curie_dict).link),
                 list_, i + 1)

\* LinkContainer._unserialize_list(name, list_). A list of links under a plain
\* name ends in self._links.append, which a dict does not have; under a
\* curie-prefixed name the loop body reads `obj`, a name the method never binds.
LinkContainer_unserialize_list(lc, name, list_) ==
    IF ~Truthy(list_) THEN lc
    ELSE IF name = "curies" THEN UnserializeCuries(lc, list_, 1)
    ELSE IF ~Contains(name, ":")
    THEN LCRaise(lc, IF list_.e[1].j # "dict" THEN "TypeError"
                     ELSE IF ~Has(list_.e[1], "name") THEN "ValueError"
                     ELSE "AttributeError")
    ELSE LCRaise(lc, IF Len(CurieParts(name)) # 2 THEN "ValueError" ELSE "NameError")

\* LinkContainer.unserialize(name, obj)
LinkContainer_unserialize(lc, name, obj) ==
    IF obj.j = "dict" THEN LinkContainer_extract_from_dict(lc, name, obj)
    ELSE IF obj.j = "list" THEN LinkContainer_unserialize_list(lc, name, obj)
    ELSE LCRaise(lc, "TypeError")

\* `for name, obj in value.items(): unserialize(name, obj)`, from entry i on
RECURSIVE UnserializeItems(_, _, _)
UnserializeItems(lc, value, i) ==
    IF i > Len(value.e) \/ lc.err # "none" THEN lc
    ELSE UnserializeItems(LinkContainer_unserialize(lc, value.e[i].k, value.e[i].val),
                          value, i + 1)

-----------------------------------------------------------------------------
(* __init__.py: DictionaryWrapper and Resource *)

\* _def_wrapper_recursion(val): dicts become DictionaryWrappers, at any depth
RECURSIVE def_wrapper_recursion(_)
def_wrapper_recursion(val) ==
    IF val.j \in {"dict", "DictionaryWrapper"}
    THEN [j |-> "DictionaryWrapper", s |-> "",
          e |-> [i \in 1..Len(val.e) |->
                    KV(val.e[i].k, def_wrapper_recursion(val.e[i].val))]]
    ELSE IF val.j = "list"
    THEN JArr([i \in 1..Len(val.e) |-> def_wrapper_recursion(val.e[i])])
    ELSE val

\* DictionaryWrapper(): no item
EmptyWrapper == [j |-> "DictionaryWrapper", s |-> "", e |-> <<>>]

\* dict.__setitem__: a key the dict holds keeps its place, a new one goes last
Assign(d, key, val) ==
    IF Has(d, key) THEN Store(d, key, val) ELSE [d EXCEPT !.e = Append(@, KV(key, val))]

\* DictionaryWrapper.__setitem__(key, value) and __setattr__(key, value)
DictionaryWrapper_setitem(self, key, value) ==
    Assign(self, key, def_wrapper_recursion(value))
\* an attribute-style write that stores the value as given
DictionaryWrapper_setattr_unwrapped(self, key, value) ==
    Assign(self, key, value)
DictionaryWrapper_setattr(self, key, value) ==
    Assign(self, key, def_wrapper_recursion(value))

\* `for key, value in dict_.items(): self[key] = value`, from entry i on
RECURSIVE SetItems(_, _, _)
SetItems(self, dict_, i) ==
    IF i > Len(dict_.e) THEN self
    ELSE SetItems(DictionaryWrapper_setitem(self, dict_.e[i].k, dict_.e[i].val),
                  dict_, i + 1)

IsDict(val) == val.j \in {"dict", "DictionaryWrapper"}

\* DictionaryWrapper.update(dict_): [err, w]
DictionaryWrapper_update(self, dict_) ==
    IF ~IsDict(dict_) THEN [err |-> "TypeError", w |-> self]
    ELSE [err |-> "none", w |-> SetItems(self, dict_, 1)]

\* DictionaryWrapper(dict_): [err, w]
DictionaryWrapper(dict_) ==
    IF ~Truthy(dict_) THEN [err |-> "none", w |-> EmptyWrapper]
    ELSE IF ~IsDict(dict_) THEN [err |-> "TypeError", w |-> EmptyWrapper]
    ELSE [err |-> "none", w |-> SetItems(EmptyWrapper, dict_, 1)]

\* Resource.__init__ before unserialize: empty links, embedded and state
NewResource == [links |-> NewLinkContainer, embedded |-> EmptyDict, state |-> EmptyDict]

\* what a construction hands back: the exception raised if any, the Resource,
\* and the caller's raw document as the construction left it
Built(e, res, raw) == [err |-> e, res |-> res, raw |-> raw]

\* the `_links` branch of Resource.unserialize on the dict `value`:
\* [lc, value], value being the caller's dict after the pop of "curies"
UnserializeLinks(lc, value) ==
    LET Rest(with_curies, popped) ==
            [lc |-> UnserializeItems(with_curies, popped, 1), value |-> popped]
        Popped(with_curies) ==
            Rest(with_curies,
                 IF with_curies.err = "none" THEN Without(value, "curies") ELSE value)
    IN  IF Has(value, "curies")
        THEN Popped(LinkContainer_unserialize(lc, "curies", Get(value, "curies")))
        ELSE Rest(lc, value)

RECURSIVE Resource(_), Resource_unserialize(_, _, _), EmbedList(_, _, _), EmbedItems(_, _, _)

\* [Resource(res) for res in list_], from element i on, done holding what is
\* built so far: [err, resources, list_]
EmbedList(list_, i, done) ==
    IF i > Len(list_.e) THEN [err |-> "none", resources |-> done, list_ |-> list_]
    ELSE LET Collect(b, after) ==
                 IF b.err # "none" THEN [err |-> b.err, resources |-> done, list_ |-> after]
                 ELSE EmbedList(after, i + 1, Append(done, b.res))
             Child(b) == Collect(b, [list_ EXCEPT !.e[i] = b.raw])
         IN  Child(Resource(list_.e[i]))

\* the `_embedded` branch on the dict `value`, from entry i on: [err, embedded, value]
EmbedItems(acc, value, i) ==
    IF i > Len(value.e) THEN [err |-> "none", embedded |-> acc, value |-> value]
    ELSE
    LET list_ == value.e[i].val
        Collect(b, after) ==
            IF b.err # "none" THEN [err |-> b.err, embedded |-> acc, value |-> after]
            ELSE EmbedItems(Put(acc, value.e[i].k, b.resources), after, i + 1)
        Relation(b) == Collect(b, [value EXCEPT !.e[i] = KV(value.e[i].k, b.list_)])
    IN  IF list_.j # "list" THEN [err |-> "TypeError", embedded |-> acc, value |-> value]
        ELSE Relation(EmbedList(list_, 1, <<>>))

\* Resource.unserialize(dict_): the loop over dict_.items(), from entry i on
Resource_unserialize(res, dict_, i) ==
    IF i > Len(dict_.e) THEN Built("none", res, dict_)
    ELSE
    LET key == dict_.e[i].k
        value == dict_.e[i].val
        \* on with the next entry, or out with the exception e
        Go(e, r, raw) == IF e # "none" THEN Built(e, res, raw)
                         ELSE Resource_unserialize(r, raw, i + 1)
        Links(l) == Go(l.lc.err, [res EXCEPT !.links = l.lc], Store(dict_, key, l.value))
        Embedded(m) ==
            Go(m.err, [res EXCEPT !.embedded = m.embedded], Store(dict_, key, m.value))
    IN  IF key \in {"_links", "_embedded"} /\ value.j # "dict"
        THEN Built("TypeError", res, dict_)
        ELSE IF key = "_links" THEN Links(UnserializeLinks(res.links, value))
        ELSE IF key = "_embedded" THEN Embedded(EmbedItems(res.embedded, value, 1))
        ELSE Go("none",
                [res EXCEPT !.state = Put(res.state, key, def_wrapper_recursion(value))],
                dict_)

\* Resource(dict_)
Resource(dict_) ==
    IF Truthy(dict_) /\ dict_.j # "dict" THEN Built("TypeError", NewResource, dict_)
    ELSE IF ~Truthy(dict_) THEN Built("none", NewResource, dict_)
    ELSE Resource_unserialize(NewResource, dict_, 1)

\* `for key, value in dict_.items(): self[key] = value` on the _state of a
\* Resource, from entry i on
RECURSIVE StateItems(_, _, _)
StateItems(state, dict_, i) ==
    IF i > Len(dict_.e) THEN state
    ELSE StateItems(Put(state, dict_.e[i].k, def_wrapper_recursion(dict_.e[i].val)),
                    dict_, i + 1)

\* Resource.__setattr__(key, value): [err, res]
Resource_setattr(self, key, value) ==
    IF key \notin DOMAIN self.state THEN [err |-> "AttributeError", res |-> self]
    ELSE [err |-> "none",
          res |-> [self EXCEPT !.state = Put(@, key, def_wrapper_recursion(value))]]

\* Resource.update(dict_, partial): [err, res]; `self._state = ...` is an
\* attribute assignment on the Resource and goes through Resource.__setattr__
Resource_update(self, dict_, partial) ==
    IF ~IsDict(dict_) THEN [err |-> "TypeError", res |-> self]
    ELSE IF partial
    THEN [err |-> "none", res |-> [self EXCEPT !.state = StateItems(@, dict_, 1)]]
    ELSE Resource_setattr(self, "_state", DictionaryWrapper(dict_).w)

\* ResourceContainer.__getattr__(key) under the module flag: [err, value]
ResourceContainer_getattr(self, key, flag) ==
    IF key \notin DOMAIN self
    THEN IF flag THEN [err |-> "none", value |-> <<>>]
         ELSE [err |-> "AttributeError", value |-> <<>>]
    ELSE [err |-> "none", value |-> self[key]]

\* use_missing_embedded_fallback(bool_) with the module flag at `flag`:
\* [err, flag]; the assignment has no `global` statement, it binds a local
use_missing_embedded_fallback(flag, bool_) ==
    IF bool_.j # "bool" THEN [err |-> "TypeError", flag |-> flag]
    ELSE [err |-> "none", flag |-> flag]


-----------------------------------------------------------------------------
(* The parts of the state a specification leaves alone stay as they are    *)
(* when the module is imported: no call made, no hook set, no document.    *)

NoResult == [err |-> "unset"]

UriIdle ==
    /\ pc = "idle"
    /\ op = "none"
    /\ text = ""
    /\ args = <<>>
    /\ kwargs = NoKwargs
    /\ ret = NoResult

NoCall == [op |-> "none", err |-> "none"]

StateIdle ==
    /\ fallback = TRUE
    /\ requested = TRUE
    /\ resource = NewResource
    /\ wrapper = EmptyWrapper
    /\ outcome = NoCall

\* a value handed to set_request_func: its name, callable(value), bool(value)
Hook(id, callable, truthy) == [id |-> id, callable |-> callable, truthy |-> truthy]
NoHook == Hook("None", FALSE, FALSE)

FetchCall(hook, uri, a, kw) == [hook |-> hook, uri |-> uri, args |-> a, kwargs |-> kw]

HookIdle ==
    /\ request_func = NoHook
    /\ history = <<>>
    /\ fetched = <<>>
    /\ last = NoCall

ResIdle ==
    /\ source = JObj(<<>>)
    /\ doc = JObj(<<>>)
    /\ built = <<>>

-----------------------------------------------------------------------------
(* The uri engine applied to one call: the caller holds an href or a       *)
(* template and an argument set, and applies one function to them.         *)

MaxArgs == 2

ArgValues == {PyStr("x"), PyStr("y"), PyList(<<"fizz", "buzz">>), PyNone}
KwNames == {"a", "bar"}
KwValues == {PyStr("z"), PyList(<<"fizz", "buzz">>)}

Hrefs ==
    {"/plain", "/{a}/{a}", "/{a}/{b}", "/{a,b}", "/foo/{?bar*}", "/{a}{?b}",
     "/{+a}{#b}", "/q{.a}{/b}", "/{;a}{&bar}", "/{a:1}{?bar}"}
Templates == {"a", "a,b", "a,a", "a*", "bar*", "a:1", "a,bar", "a:1*", "a,b:1*", ""}

ArgLists == UNION {[1..n -> ArgValues] : n \in 0..MaxArgs}
KwMaps == UNION {[names -> KwValues] : names \in SUBSET KwNames}

UriInit ==
    /\ pc = "ready"
    /\ op = "none"
    /\ text \in Hrefs \cup Templates
    /\ args \in ArgLists
    /\ kwargs \in KwMaps
    /\ ret = NoResult

ParseUri ==
    /\ pc = "ready"
    /\ text \in Hrefs
    /\ pc' = "done"
    /\ op' = "parse_uri"
    /\ ret' = parse_uri(text, args, kwargs)
    /\ UNCHANGED <<text, args, kwargs, hookVars, resVars, stateVars>>

ValueExtraction ==
    /\ pc = "ready"
    /\ text \in Templates
    /\ pc' = "done"
    /\ op' = "value_extraction"
    /\ ret' = value_extraction(text, args, kwargs)
    /\ UNCHANGED <<text, args, kwargs, hookVars, resVars, stateVars>>

KeyValueExtraction ==
    /\ pc = "ready"
    /\ text \in Templates
    /\ pc' = "done"
    /\ op' = "key_value_extraction"
    /\ ret' = key_value_extraction(text, args, kwargs)
    /\ UNCHANGED <<text, args, kwargs, hookVars, resVars, stateVars>>

UriNext == ParseUri \/ ValueExtraction \/ KeyValueExtraction

InitUri == UriInit /\ HookIdle /\ ResIdle /\ StateIdle
SpecUri == InitUri /\ [][UriNext]_vars

-----------------------------------------------------------------------------
(* SpecHelpers: text_limit and unpack applied to one call. args holds the   *)
(* positional arguments of the call, in the order of the signature.         *)

MaxLimit == 4

\* the limit as `if limit and limit > 0` reads it: None is false, as 0 is
LimitOf(limit) == IF limit.t = "none" THEN 0 ELSE limit.v[1]

Limits == {PyInt(n) : n \in (0 - MaxLimit)..MaxLimit} \cup {PyNone}
LimitedValues ==
    {PyStr(""), PyStr("ab"), PyStr("fizz"), PyStr("fizz buzz"),
     PyList(<<"fizz", "buzz">>), PyInt(5), PyNone}
UnpackValues ==
    {PyStr("this is a test value"), PyStr(""), PyBool(TRUE), PyInt(314159), PyNone,
     PyList(<<>>), PyList(<<"fizz">>), PyList(<<"fizz", "buzz">>),
     PyList(<<"a", "b", "c">>),
     PyDict(<<>>), PyDict(<<"foo", "bar">>), PyDict(<<"foo", "bar", "fizz", "buzz">>)}

TextLimitCalls == {<<l, val>> : l \in Limits, val \in LimitedValues}
UnpackCalls == {<<val, PyBool(b)>> : val \in UnpackValues, b \in BOOLEAN}

HelpersInit ==
    /\ pc = "ready"
    /\ op = "none"
    /\ text = ""
    /\ args \in TextLimitCalls \cup UnpackCalls
    /\ kwargs = NoKwargs
    /\ ret = NoResult

\* text_limit(limit, value)
TextLimit ==
    /\ pc = "ready"
    /\ args \in TextLimitCalls
    /\ pc' = "done"
    /\ op' = "text_limit"
    /\ ret' = text_limit(LimitOf(args[1]), args[2])
    /\ UNCHANGED <<text, args, kwargs, hookVars, resVars, stateVars>>

\* unpack(value, explode); value is what the caller's argument holds after
\* the call, which only ever appends to its own return_list
Unpack ==
    /\ pc = "ready"
    /\ args \in UnpackCalls
    /\ pc' = "done"
    /\ op' = "unpack"
    /\ ret' = [err |-> "none", values |-> unpack(args[1], args[2].v[1]),
               value |-> args[1]]
    /\ UNCHANGED <<text, args, kwargs, hookVars, resVars, stateVars>>

HelpersNext == TextLimit \/ Unpack

InitHelpers == HelpersInit /\ HookIdle /\ ResIdle /\ StateIdle
SpecHelpers == InitHelpers /\ [][HelpersNext]_vars

-----------------------------------------------------------------------------
(* SpecExpand: expand_placeholder applied to one placeholder text, as        *)
(* parse_uri hands it over, and an argument set.                             *)

Prefixes == {"", "+", "#", ".", "/", ";", "?", "&"}
Placeholders == {p \o t : p \in Prefixes, t \in {"a", "a,b", "a*"}}
ExpandValues == {PyStr("foo"), PyStr(""), PyStr("=q"), PyList(<<"fizz", "buzz">>)}
ExpandArgLists == UNION {[1..n -> ExpandValues] : n \in 0..MaxArgs}
ExpandKwMaps == UNION {[names -> KwValues] : names \in SUBSET {"a"}}

ExpandInit ==
    /\ pc = "ready"
    /\ op = "none"
    /\ text \in Placeholders
    /\ args \in ExpandArgLists
    /\ kwargs \in ExpandKwMaps
    /\ ret = NoResult

ExpandPlaceholder ==
    /\ pc = "ready"
    /\ pc' = "done"
    /\ op' = "expand_placeholder"
    /\ ret' = expand_placeholder(text, args, kwargs)
    /\ UNCHANGED <<text, args, kwargs, hookVars, resVars, stateVars>>

ExpandNext == ExpandPlaceholder

InitExpand == ExpandInit /\ HookIdle /\ ResIdle /\ StateIdle
SpecExpand == InitExpand /\ [][ExpandNext]_vars

-----------------------------------------------------------------------------
(* The fetch hook: set_request_func, Link.__call__ and enter *)

MaxSets == 2
MaxCalls == 1

\* values a caller may hand to set_request_func: two functions, a callable
\* object whose truth value is false, and None
HookValues ==
    {Hook("f1", TRUE, TRUE), Hook("f2", TRUE, TRUE),
     Hook("falsy_callable", TRUE, FALSE), NoHook}

LinkTo(h) == JObj(<<KV("href", JStr(h))>>)
CurieList == JArr(<<JObj(<<KV("name", JStr("foo")), KV("href", JStr("/foo/{rel}"))>>)>>)

\* what the fetch functions answer, by uri; {} for any other uri
Routes ==
    [uri \in {"/", "/early", "/late", "/bare"} |->
        CASE uri = "/" ->
                JObj(<<KV("_links", JObj(<<KV("people", LinkTo("/people"))>>))>>)
          [] uri = "/early" ->
                JObj(<<KV("_links", JObj(<<KV("curies", CurieList),
                                            KV("foo:bar", LinkTo("/bar"))>>))>>)
          [] uri = "/late" ->
                JObj(<<KV("_links", JObj(<<KV("foo:bar", LinkTo("/bar")),
                                            KV("curies", CurieList)>>))>>)
          [] uri = "/bare" -> JObj(<<KV("total", JInt("1"))>>)]
Fetch(uri) == IF uri \in DOMAIN Routes THEN Routes[uri] ELSE JObj(<<>>)

MkLink(href, templated) ==
    [NewLink EXCEPT !["href"] = JStr(href), !["templated"] = JBool(templated)]
InvokeLinks ==
    {MkLink("/foo/{?bar*}", TRUE), MkLink("/bare", FALSE), MkLink("/{a}/{b}", TRUE),
     MkLink("/{a:1*}", TRUE), MkLink("/{a}", FALSE)}
InvokeArgs == {<<>>, <<PyStr("x")>>}
InvokeKwargs == {NoKwargs, [k \in {"bar"} |-> PyList(<<"fizz", "buzz">>)]}

HookInit == HookIdle

\* set_request_func(callable_)
SetRequestFunc(callable_) ==
    /\ Len(history) < MaxSets
    /\ history' = Append(history, callable_)
    /\ IF ~callable_.callable
       THEN /\ last' = [op |-> "set_request_func", err |-> "TypeError"]
            /\ UNCHANGED request_func
       ELSE /\ last' = [op |-> "set_request_func", err |-> "none"]
            /\ request_func' = callable_
    /\ UNCHANGED <<fetched, uriVars, resVars, stateVars>>

\* Link.__call__(*args, **kwargs): expand, fetch, wrap
Invoke(link, a, kw) ==
    LET Raised(e) == [op |-> "invoke", link |-> link, args |-> a, kwargs |-> kw,
                      err |-> e]
        Wrap(b) == [op |-> "invoke", link |-> link, args |-> a, kwargs |-> kw,
                    err |-> b.err, res |-> b.res]
        Request(p) ==
            IF p.err # "none"
            THEN /\ last' = Raised(p.err)
                 /\ UNCHANGED fetched
            ELSE /\ fetched' = Append(fetched,
                                      FetchCall(request_func.id, p.href, p.args, p.kwargs))
                 /\ last' = Wrap(Resource(Fetch(p.href)))
    IN  /\ Len(fetched) < MaxCalls
        /\ IF ~request_func.truthy
           THEN /\ last' = Raised("RuntimeError")
                /\ UNCHANGED fetched
           ELSE IF Truthy(link["templated"])
           THEN Request(parse_uri(link["href"].s, a, kw))
           ELSE Request([err |-> "none", href |-> link["href"].s, args |-> a,
                         kwargs |-> kw])
        /\ UNCHANGED <<request_func, history, uriVars, resVars, stateVars>>

\* enter(uri)
Enter(uri) ==
    LET result == Fetch(uri)
        Returned(lc) == [op |-> "enter", uri |-> uri, err |-> lc.err,
                         link_container |-> lc]
    IN  /\ Len(fetched) < MaxCalls
        /\ IF ~request_func.callable
           THEN /\ last' = [op |-> "enter", uri |-> uri, err |-> "TypeError"]
                /\ UNCHANGED fetched
           ELSE /\ fetched' = Append(fetched,
                                     FetchCall(request_func.id, uri, <<>>, NoKwargs))
                /\ last' = Returned(IF Has(result, "_links")
                                    THEN UnserializeItems(NewLinkContainer,
                                                          Get(result, "_links"), 1)
                                    ELSE NewLinkContainer)
        /\ UNCHANGED <<request_func, history, uriVars, resVars, stateVars>>

Next ==
    \/ \E c \in HookValues : SetRequestFunc(c)
    \/ \E link \in InvokeLinks, a \in InvokeArgs, kw \in InvokeKwargs : Invoke(link, a, kw)
    \/ \E uri \in DOMAIN Routes : Enter(uri)

Init == HookInit /\ UriIdle /\ ResIdle /\ StateIdle
Spec == Init /\ [][Next]_vars


-----------------------------------------------------------------------------
(* Documents unserialized into Resources: the caller holds one raw document *)
(* object and constructs Resources from it.                                 *)

MaxBuilds == 2

Leaf(name_, href) ==
    JObj(<<KV("name", JStr(name_)), KV("age", JInt("22")),
           KV("_links", JObj(<<KV("self", LinkTo(href))>>))>>)
CuriedLeaf ==
    JObj(<<KV("name", JStr("Ada")),
           KV("_links", JObj(<<KV("foo:home", LinkTo("/home")), KV("curies", CurieList)>>))>>)

StateChoices ==
    {<<>>, <<KV("total", JInt("1"))>>,
     <<KV("name", JStr("Curtis")), KV("meta", JObj(<<KV("tags", JArr(<<JStr("a")>>))>>))>>}

LinksChoices ==
    {<<>>,
     <<KV("self", LinkTo("/people"))>>,
     <<KV("curies", CurieList), KV("foo:bar", LinkTo("/bar"))>>,
     <<KV("foo:bar", LinkTo("/bar")), KV("curies", CurieList)>>,
     <<KV("self", LinkTo("/people")), KV("curies", CurieList),
       KV("foo:bar", JObj(<<KV("href", JStr("/bar{?q}")), KV("templated", JBool(TRUE)),
                            KV("rank", JInt("3"))>>))>>,
     <<KV("zap:bar", LinkTo("/bar")), KV("next", JObj(<<>>))>>,
     <<KV("curies", CurieList), KV("foo:bar", LinkTo("/bar")), KV("bar", LinkTo("/plain"))>>,
     <<KV("items", JArr(<<JObj(<<KV("name", JStr("one")), KV("href", JStr("/1"))>>)>>))>>,
     <<KV("a:b:c", LinkTo("/abc"))>>,
     <<KV("curies", CurieList),
       KV("foo:items", JArr(<<JObj(<<KV("name", JStr("one")), KV("href", JStr("/1"))>>)>>))>>,
     <<KV("curies", JArr(<<LinkTo("/nameless/{rel}")>>)), KV("self", LinkTo("/people"))>>}

EmbeddedChoices ==
    {<<>>,
     <<KV("people", JArr(<<Leaf("Curtis", "/people/clagraff")>>))>>,
     <<KV("people", JArr(<<Leaf("Curtis", "/people/clagraff"), CuriedLeaf>>)),
       KV("pets", JArr(<<>>))>>}

Wrapped(k, entries) == IF entries = <<>> THEN <<>> ELSE <<KV(k, JObj(entries))>>

Docs ==
    {JObj(st \o Wrapped("_links", lk) \o Wrapped("_embedded", em)) :
        st \in StateChoices, lk \in LinksChoices, em \in EmbeddedChoices}

ResInit ==
    /\ source \in Docs
    /\ doc = source
    /\ built = <<>>

\* Resource(doc) on the document object the caller holds
Construct ==
    LET Done(b) == /\ built' = Append(built, [err |-> b.err, res |-> b.res])
                   /\ doc' = b.raw
    IN  /\ Len(built) < MaxBuilds
        /\ Done(Resource(doc))
        /\ UNCHANGED <<source, uriVars, hookVars, stateVars>>

ResNext == Construct

InitRes == ResInit /\ UriIdle /\ HookIdle /\ StateIdle
SpecRes == InitRes /\ [][ResNext]_vars

-----------------------------------------------------------------------------
(* SpecState: a constructed Resource is updated, assigned to and read, and   *)
(* the missing-embedded fallback is configured.                              *)

StateDocs ==
    {JObj(<<KV("total", JInt("1")),
            KV("_links", JObj(<<KV("self", LinkTo("/people"))>>)),
            KV("_embedded", JObj(<<KV("people", JArr(<<Leaf("Curtis", "/people/clagraff")>>))>>))>>),
     JObj(<<KV("name", JStr("Curtis"))>>)}

UpdateDicts ==
    {JObj(<<>>),
     JObj(<<KV("total", JInt("2"))>>),
     JObj(<<KV("name", JStr("Ada")), KV("meta", JObj(<<KV("k", JArr(<<>>))>>))>>),
     JObj(<<KV("_links", JObj(<<>>))>>),
     JArr(<<>>)}

AttrKeys == {"total", "name", "_links"}
AttrValues == {JInt("5"), JObj(<<KV("x", JInt("1"))>>)}
EmbeddedNames == {"people", "pets"}
FallbackInputs == {JBool(TRUE), JBool(FALSE), JInt("0")}

StateInit ==
    /\ resource \in {Resource(d).res : d \in StateDocs}
    /\ fallback = TRUE
    /\ requested = TRUE
    /\ wrapper = EmptyWrapper
    /\ outcome = NoCall

\* resource.update(d, partial)
Update ==
    \E d \in UpdateDicts, partial \in BOOLEAN :
        LET Done(r) == /\ resource' = r.res
                       /\ outcome' = [op |-> "update", err |-> r.err,
                                      dict_ |-> d, partial |-> partial]
        IN  /\ Done(Resource_update(resource, d, partial))
            /\ UNCHANGED <<fallback, requested, wrapper, uriVars, hookVars, resVars>>

\* resource.<key> = value
SetAttr ==
    \E key \in AttrKeys, value \in AttrValues :
        LET Done(r) == /\ resource' = r.res
                       /\ outcome' = [op |-> "setattr", err |-> r.err,
                                      key |-> key, value |-> value]
        IN  /\ Done(Resource_setattr(resource, key, value))
            /\ UNCHANGED <<fallback, requested, wrapper, uriVars, hookVars, resVars>>

\* use_missing_embedded_fallback(b)
UseMissingEmbeddedFallback ==
    \E b \in FallbackInputs :
        LET Done(r) == /\ fallback' = r.flag
                       /\ requested' = IF r.err = "none" THEN b = JBool(TRUE) ELSE requested
                       /\ outcome' = [op |-> "use_missing_embedded_fallback",
                                      err |-> r.err, bool_ |-> b]
        IN  /\ Done(use_missing_embedded_fallback(fallback, b))
            /\ UNCHANGED <<resource, wrapper, uriVars, hookVars, resVars>>

\* resource.embedded.<key>
ReadEmbedded ==
    \E key \in EmbeddedNames :
        LET Done(r) == outcome' = [op |-> "embedded", err |-> r.err,
                                   key |-> key, value |-> r.value]
        IN  /\ Done(ResourceContainer_getattr(resource.embedded, key, fallback))
            /\ UNCHANGED <<fallback, requested, resource, wrapper,
                           uriVars, hookVars, resVars>>

StateNext == Update \/ SetAttr \/ UseMissingEmbeddedFallback \/ ReadEmbedded

InitState == StateInit /\ UriIdle /\ HookIdle /\ ResIdle
SpecState == InitState /\ [][StateNext]_vars

-----------------------------------------------------------------------------
(* SpecWrap: a DictionaryWrapper is constructed from a mapping and written   *)
(* to by key, by attribute and by update.                                    *)

WrapMappings ==
    {JObj(<<>>),
     JObj(<<KV("a", JInt("1"))>>),
     JObj(<<KV("a", JObj(<<KV("n", JObj(<<KV("m", JInt("1"))>>))>>)),
            KV("b", JArr(<<JObj(<<KV("c", JInt("1"))>>)>>))>>)}

WrapKeys == {"a", "b"}
WrapValues ==
    {JInt("1"),
     JObj(<<KV("c", JObj(<<>>))>>),
     JArr(<<JObj(<<KV("c", JArr(<<JObj(<<>>)>>))>>), JStr("s")>>)}
WrapUpdates ==
    {JObj(<<KV("a", JObj(<<KV("n", JArr(<<JObj(<<>>)>>))>>))>>),
     JObj(<<KV("b", JInt("2")), KV("c", JObj(<<>>))>>),
     JStr("x")}

WrapInit ==
    /\ wrapper \in {DictionaryWrapper(m).w : m \in WrapMappings}
    /\ outcome = NoCall
    /\ fallback = TRUE
    /\ requested = TRUE
    /\ resource = NewResource

\* wrapper[key] = value
SetItem ==
    \E key \in WrapKeys, value \in WrapValues :
        /\ wrapper' = DictionaryWrapper_setitem(wrapper, key, value)
        /\ outcome' = [op |-> "setitem", err |-> "none", key |-> key, value |-> value]
        /\ UNCHANGED <<fallback, requested, resource, uriVars, hookVars, resVars>>

\* wrapper.<key> = value
SetAttribute ==
    \E key \in WrapKeys, value \in WrapValues :
        /\ wrapper' = DictionaryWrapper_setattr(wrapper, key, value)
        /\ outcome' = [op |-> "setattribute", err |-> "none", key |-> key, value |-> value]
        /\ UNCHANGED <<fallback, requested, resource, uriVars, hookVars, resVars>>

\* wrapper.update(d)
WrapperUpdate ==
    \E d \in WrapUpdates :
        LET Done(r) == /\ wrapper' = r.w
                       /\ outcome' = [op |-> "wrapper.update", err |-> r.err, dict_ |-> d]
        IN  /\ Done(DictionaryWrapper_update(wrapper, d))
            /\ UNCHANGED <<fallback, requested, resource, uriVars, hookVars, resVars>>

WrapNext == SetItem \/ SetAttribute \/ WrapperUpdate

InitWrap == WrapInit /\ UriIdle /\ HookIdle /\ ResIdle
SpecWrap == InitWrap /\ [][WrapNext]_vars

-----------------------------------------------------------------------------
(* Claims about the uri engine *)

\* the number of places where p starts in s
Occurrences(s, p) == Cardinality({i \in 1..Len(s) : StartsWithAt(s, i, p)})

Distinct(seq) == \A i, j \in 1..Len(seq) : i # j => seq[i] # seq[j]
AllText(seq) == \A i \in 1..Len(seq) : seq[i].t = "str"

\* a group or template of plain names: no explode, no limit, no empty name
PlainTemplate(t) ==
    /\ ~Contains(t, "*")
    /\ ~Contains(t, ":")
    /\ \A i \in 1..Len(Split(t, ",")) : Len(Split(t, ",")[i]) > 0

Extractor == op \in {"value_extraction", "key_value_extraction"}

\* C1: an argument once consumed is never reused: when parse_uri returns, the
\* text of each supplied positional argument (the arguments being distinct
\* strings foreign to the href) stands in the expanded URI at most once, that
\* is in the place of at most one group, also when two groups carry the same
\* placeholder text.
C1_ArgumentNeverReused ==
    (pc = "done" /\ op = "parse_uri" /\ ret.err = "none"
        /\ AllText(args) /\ Distinct(args)) =>
    \A i \in 1..Len(args) :
        ~Contains(text, args[i].v[1]) => Occurrences(ret.href, args[i].v[1]) <= 1

RECURSIVE Flatten(_)
Flatten(seqs) == IF seqs = <<>> THEN <<>> ELSE Head(seqs) \o Flatten(Tail(seqs))

\* what the placeholder names of template t hold when the i-th name is
\* resolved from src[i]
ResolvedFrom(t, src) ==
    LET names == Split(t, ",")
    IN  Flatten([i \in 1..Len(names) |->
            IF op = "key_value_extraction"
            THEN KeyValuePairs(names[i], unpack(src[i], FALSE))
            ELSE unpack(src[i], FALSE)])

\* C3: every comma-separated placeholder is resolved, in order: a template of
\* k distinct plain names called with k distinct non-null positional arguments
\* returns the values of all k placeholders, the i-th from the i-th argument;
\* called with
\* no positional argument and a keyed argument for every name, it returns the
\* value of every name from the keyed argument of that name.
C3_EveryPlaceholderResolved ==
    (pc = "done" /\ Extractor /\ PlainTemplate(text) /\ Distinct(Split(text, ","))) =>
    LET names == Split(text, ",")
    IN  /\ (Len(args) = Len(names) /\ Distinct(args)
                /\ \A i \in 1..Len(args) : args[i].t # "none")
            => (ret.err = "none" /\ ret.values = ResolvedFrom(text, args))
        /\ (args = <<>> /\ \A i \in 1..Len(names) : names[i] \in DOMAIN kwargs)
            => (ret.err = "none"
                /\ ret.values = ResolvedFrom(text, [i \in 1..Len(names) |-> kwargs[names[i]]]))

\* C4: each resolved placeholder removes exactly the one argument it consumed:
\* with c placeholders resolved from positional arguments, the leftover
\* positional arguments are the supplied ones without the first c, in their
\* order, also when supplied arguments are equal; the leftover keyed arguments
\* are the supplied ones that were not consumed.
C4_OnlyConsumedRemoved ==
    (pc = "done" /\ Extractor /\ ret.err = "none"
        /\ (args # <<>> \/ DOMAIN kwargs # {})) =>
    LET resolved == Len(Split(text, ",")) - Len(ret.remaining)
        keyed == Cardinality((DOMAIN kwargs) \ (DOMAIN ret.kwargs))
        c == resolved - keyed
    IN  /\ ret.args = SubSeq(args, c + 1, Len(args))
        /\ DOMAIN ret.kwargs \subseteq DOMAIN kwargs
        /\ \A k \in DOMAIN ret.kwargs : ret.kwargs[k] = kwargs[k]

\* the groups of an href are all plain: an operator prefix and plain names
PlainGroups(href) ==
    \A i \in 1..Len(FindAll(href)) :
        LET g == FindAll(href)[i]
        IN  PlainTemplate(IF SubSeq(g, 1, 1) \in prefix_types THEN From(g, 2) ELSE g)

\* C5: parse_uri is never aborted by unresolved placeholders or by unconsumed
\* arguments: for an href with well-formed groups, no two alike, called with
\* at least one argument, it returns without raising.
C5_NeverAborted ==
    (pc = "done" /\ op = "parse_uri" /\ FindAll(text) # <<>> /\ PlainGroups(text)
        /\ Distinct(FindAll(text)) /\ (args # <<>> \/ DOMAIN kwargs # {})) =>
    ret.err = "none"

-----------------------------------------------------------------------------
(* Claims about the fetch hook *)

\* the latest call into habu invoked the Link /foo/{?bar*}, templated, with
\* the one keyed argument bar=["fizz","buzz"], and got past the hook test
FooBarInvoked ==
    /\ last.op = "invoke"
    /\ last.link = MkLink("/foo/{?bar*}", TRUE)
    /\ last.args = <<>>
    /\ last.kwargs = [k \in {"bar"} |-> PyList(<<"fizz", "buzz">>)]
    /\ last.err # "RuntimeError"

\* C2, as the specification words it: invoking the Link /foo/{?bar*} with
\* bar=["fizz","buzz"] hands the fetch function the URI /foo?bar=fizz&bar=buzz.
C2_FetchesFooQuery ==
    FooBarInvoked =>
        fetched # <<>> /\ fetched[Len(fetched)].uri = "/foo?bar=fizz&bar=buzz"

\* C2, amended: invoking the Link /foo/{?bar*} with bar=["fizz","buzz"]
\* expands the href before the fetch function is called, the group alone
\* being replaced and the "/" before it kept: the fetch function configured
\* receives exactly the URI /foo/?bar=fizz&bar=buzz.
C2_FetchesFooSlashQuery ==
    FooBarInvoked =>
        /\ fetched # <<>>
        /\ fetched[Len(fetched)].uri = "/foo/?bar=fizz&bar=buzz"
        /\ fetched[Len(fetched)].hook = request_func.id

C2_Witness ==
    /\ FooBarInvoked
    /\ last.err = "none"
    /\ Len(fetched) = 1
    /\ fetched[1].uri = "/foo/?bar=fizz&bar=buzz"

\* a set_request_func call with a callable has succeeded among calls
Configured(calls) == \E i \in 1..Len(calls) : calls[i].callable

\* the hook the latest successful set_request_func call among calls configured
MostRecent(calls) ==
    calls[CHOOSE i \in 1..Len(calls) :
            calls[i].callable /\ \A j \in (i + 1)..Len(calls) : ~calls[j].callable]

\* C6: after any sequence of set_request_func calls, a Link invocation raises
\* RuntimeError, no fetch function called, exactly when no set_request_func
\* call with a callable has succeeded so far; a set_request_func call with a
\* non-callable raises TypeError and leaves the configured hook as it was;
\* otherwise the invocation, unless the expansion of its href raises, calls
\* the most recently configured hook.
C6_HookConfigured ==
    [][/\ (history' # history /\ ~history'[Len(history')].callable) =>
              (last'.err = "TypeError" /\ request_func' = request_func)
       /\ (history' = history /\ last'.op = "invoke") =>
              /\ (last'.err = "RuntimeError") <=> ~Configured(history)
              /\ last'.err = "RuntimeError" => fetched' = fetched
              /\ Configured(history) =>
                    \/ /\ fetched' = fetched
                       /\ last'.err \in {"ValueError", "TypeError", "IndexError"}
                    \/ /\ Len(fetched') = Len(fetched) + 1
                       /\ fetched'[Len(fetched')].hook = MostRecent(history).id
      ]_vars

\* the `_links` and `_embedded` objects of a raw document, empty when absent
LinksOf(d) == IF Has(d, "_links") THEN Get(d, "_links") ELSE JObj(<<>>)
EmbeddedOf(d) == IF Has(d, "_embedded") THEN Get(d, "_embedded") ELSE JObj(<<>>)

\* the relation name and the curie name of a `_links` key
RelName(k) == IF Contains(k, ":") THEN Split(k, ":")[2] ELSE k
CurieName(k) == IF Contains(k, ":") THEN Split(k, ":")[1] ELSE ""

\* the CURIE objects listed under the `curies` key of a `_links` object
CuriesOf(links_) ==
    IF Has(links_, "curies") /\ Get(links_, "curies").j = "list"
    THEN Get(links_, "curies").e ELSE <<>>

\* entry i of links_ is a curie-prefixed singular relation whose CURIE is
\* listed under the `curies` key of the same object
DeclaredCurie(links_, i) ==
    /\ links_.e[i].val.j = "dict"
    /\ Truthy(links_.e[i].val)
    /\ Contains(links_.e[i].k, ":")
    /\ \E n \in 1..Len(CuriesOf(links_)) :
           Get(CuriesOf(links_)[n], "name").s = CurieName(links_.e[i].k)

IsLink(x) == DOMAIN x = LinkAttrs

\* C10: enter(uri) calls the fetch function with uri and returns the Link
\* Container parsed from the `_links` of the document fetched, an empty one
\* when `_links` is absent; the CURIEs are unserialized before any other
\* relation, so every curie-prefixed relation whose CURIE the same `_links`
\* declares has its documentation link whatever the key order.
C10_EnterCuriesFirst ==
    (last.op = "enter" /\ last.err = "none") =>
    LET links_ == LinksOf(Fetch(last.uri))
        lc == last.link_container
    IN  /\ fetched # <<>>
        /\ fetched[Len(fetched)].uri = last.uri
        /\ ~Has(Fetch(last.uri), "_links") => lc = NewLinkContainer
        /\ \A i \in 1..Len(links_.e) :
              DeclaredCurie(links_, i) =>
                  /\ RelName(links_.e[i].k) \in DOMAIN lc.links
                  /\ IsLink(lc.links[RelName(links_.e[i].k)]["_documentation"])

-----------------------------------------------------------------------------
(* Claims about documents unserialized into Resources *)

\* a state value is the raw value it was stored from, as == compares them: a
\* dict met as a DictionaryWrapper with the same entries, at any depth
RECURSIVE SameValue(_, _)
SameValue(w, raw) ==
    IF raw.j = "dict"
    THEN /\ w.j = "DictionaryWrapper"
         /\ Len(w.e) = Len(raw.e)
         /\ \A i \in 1..Len(raw.e) :
               w.e[i].k = raw.e[i].k /\ SameValue(w.e[i].val, raw.e[i].val)
    ELSE IF raw.j = "list"
    THEN /\ w.j = "list"
         /\ Len(w.e) = Len(raw.e)
         /\ \A i \in 1..Len(raw.e) : SameValue(w.e[i], raw.e[i])
    ELSE w = raw

Keys(d) == {d.e[i].k : i \in 1..Len(d.e)}
StateKeys(d) == Keys(d) \ {"_links", "_embedded"}

\* entry i of links_ is a singular link entry: one link object, not an empty
\* one, under a relation
SingularEntry(links_, i) ==
    /\ links_.e[i].val.j = "dict"
    /\ Truthy(links_.e[i].val)
    /\ links_.e[i].k # "curies"

\* a later singular entry of links_ carries the relation name of entry i
Replaced(links_, i) ==
    \E j \in (i + 1)..Len(links_.e) :
        /\ SingularEntry(links_, j)
        /\ RelName(links_.e[j].k) = RelName(links_.e[i].k)

\* the entry is reachable in lc under its relation name, with its href
LinkReachable(lc, entry) ==
    /\ RelName(entry.k) \in DOMAIN lc.links
    /\ Has(entry.val, "href") => lc.links[RelName(entry.k)]["href"] = Get(entry.val, "href")

\* res partitions the raw document d: its state holds the keys of d other
\* than _links and _embedded with their values, each _embedded relation one
\* child per list element in order, each child partitioning its element, and
\* the singular _links entries are reachable: all of them when every is TRUE,
\* else those that no later entry replaces
RECURSIVE Partitions(_, _, _)
Partitions(res, d, every) ==
    LET links_ == LinksOf(d)
        emb == EmbeddedOf(d)
    IN  /\ DOMAIN res.state = StateKeys(d)
        /\ \A k \in StateKeys(d) : SameValue(res.state[k], Get(d, k))
        /\ DOMAIN res.embedded = Keys(emb)
        /\ \A i \in 1..Len(emb.e) :
              LET children == res.embedded[emb.e[i].k]
                  elements == emb.e[i].val.e
              IN  /\ Len(children) = Len(elements)
                  /\ \A n \in 1..Len(elements) :
                        Partitions(children[n], elements[n], every)
        /\ \A i \in 1..Len(links_.e) :
              (SingularEntry(links_, i) /\ (every \/ ~Replaced(links_, i)))
                  => LinkReachable(res.links, links_.e[i])

\* the construction this step made, when it made one that returned
Constructed == Len(built') > Len(built) /\ built'[Len(built')].err = "none"

\* C7, as the specification words it: a Resource constructed from a raw
\* document partitions it, every singular _links entry being reachable in the
\* Link Container under its relation name with the href of its object.
C7_EveryEntryReachable ==
    [][Constructed => Partitions(built'[Len(built')].res, doc, TRUE)]_vars

\* C7, amended: a Resource constructed from a raw document holds every key
\* other than _links and _embedded in its state with its value, maps each
\* _embedded relation to one child Resource per list element in the same
\* order, each built the same way from its element, and makes each singular
\* _links entry (a link object that is not empty) reachable under its relation
\* name (the part after a curie prefix) with the href of its object, when no
\* later entry of the same _links has the same relation name.
C7_Partitioned ==
    [][Constructed => Partitions(built'[Len(built')].res, doc, FALSE)]_vars

C7_Witness ==
    /\ built # <<>>
    /\ built[1].err = "none"
    /\ DOMAIN built[1].res.state = {"name", "meta"}
    /\ "self" \in DOMAIN built[1].res.links.links
    /\ built[1].res.links.links["self"]["href"] = JStr("/people")
    /\ "people" \in DOMAIN built[1].res.embedded
    /\ Len(built[1].res.embedded["people"]) = 2
    /\ built[1].res.embedded["people"][2].state["name"] = JStr("Ada")
    /\ built[1].res.embedded["people"][1].links.links["self"]["href"]
           = JStr("/people/clagraff")

\* C8: unserializing the same raw document object twice into two Resources
\* yields equal state, link (documentation links included) and embedded
\* trees, for every document, those with a curies list included.
C8_SameTreesTwice ==
    (Len(built) >= 2 /\ built[1].err = "none" /\ built[2].err = "none") =>
        built[1].res = built[2].res

\* in res, built from d, and in its embedded children: the Link of every
\* curie-prefixed relation c:r whose CURIE c (href h) the same _links
\* declares has a documentation Link, h with {rel} replaced by r as its
\* href, c:r as its name, templated false
RECURSIVE Documented(_, _)
Documented(res, d) ==
    LET links_ == LinksOf(d)
        emb == EmbeddedOf(d)
        curies == CuriesOf(links_)
    IN  /\ \A i \in 1..Len(links_.e), n \in 1..Len(curies) :
              (/\ DeclaredCurie(links_, i)
               /\ Get(curies[n], "name").s = CurieName(links_.e[i].k)
               /\ ~Replaced(links_, i)) =>
              LET r == RelName(links_.e[i].k)
                  documentation == res.links.links[r]["_documentation"]
              IN  /\ IsLink(documentation)
                  /\ documentation["href"] =
                         JStr(Replace(Get(curies[n], "href").s, "{rel}", r))
                  /\ documentation["name"] = JStr(links_.e[i].k)
                  /\ documentation["templated"] = JBool(FALSE)
        /\ \A i \in 1..Len(emb.e) :
              \A n \in 1..Len(emb.e[i].val.e) :
                  Documented(res.embedded[emb.e[i].k][n], emb.e[i].val.e[n])

NamedList(links_, i) ==
    /\ links_.e[i].k # "curies"
    /\ links_.e[i].val.j = "list"
    /\ links_.e[i].val.e # <<>>
    /\ \A n \in 1..Len(links_.e[i].val.e) :
           links_.e[i].val.e[n].j = "dict" /\ Has(links_.e[i].val.e[n], "name")

\* C11: unserializing a _links relation given as a non-empty list of link
\* objects that each carry a name succeeds, and the Link Container then holds
\* for that relation one Link per list entry, each with the href and name of
\* its own list element, in list order.
C11_ListRelation ==
    (built # <<>> /\ \A i \in 1..Len(LinksOf(source).e) :
                         NamedList(LinksOf(source), i) \/ SingularEntry(LinksOf(source), i)) =>
    /\ built[1].err = "none"
    /\ \A i \in 1..Len(LinksOf(source).e) :
          NamedList(LinksOf(source), i) =>
              LET held == built[1].res.links.links[RelName(LinksOf(source).e[i].k)]
                  given == LinksOf(source).e[i].val.e
              IN  /\ Len(held) = Len(given)
                  /\ \A n \in 1..Len(given) :
                        /\ held[n]["name"] = Get(given[n], "name")
                        /\ Has(given[n], "href") => held[n]["href"] = Get(given[n], "href")

-----------------------------------------------------------------------------
(* Claims about a Resource after construction *)

\* the step is a Resource.update call with a dict
Updated == outcome'.op = "update" /\ outcome'.dict_.j = "dict"

\* the state holds every key of d with the value d gives it
HoldsAll(state, d) ==
    \A k \in Keys(d) : k \in DOMAIN state /\ SameValue(state[k], Get(d, k))

\* C12: Resource.update(d, partial=True) sets every key of d in the state and
\* leaves every other state key with its prior value; Resource.update(d,
\* partial=False) succeeds and leaves a state holding exactly the keys and
\* values of d; in both modes links and embedded resources are unchanged.
C12_UpdateModes ==
    [][Updated =>
        /\ outcome'.err = "none"
        /\ HoldsAll(resource'.state, outcome'.dict_)
        /\ outcome'.partial =>
               \A k \in (DOMAIN resource.state) \ Keys(outcome'.dict_) :
                   k \in DOMAIN resource'.state /\ resource'.state[k] = resource.state[k]
        /\ ~outcome'.partial => DOMAIN resource'.state = Keys(outcome'.dict_)
        /\ resource'.links = resource.links
        /\ resource'.embedded = resource.embedded]_vars

\* C13: reading an embedded relation that was never populated yields an empty
\* sequence while the fallback asked for is True (the default) and signals
\* AttributeError while the fallback asked for is False; a populated relation
\* is returned unchanged in both modes.
C13_FallbackFollowsConfiguration ==
    outcome.op = "embedded" =>
        IF outcome.key \in DOMAIN resource.embedded
        THEN outcome.err = "none" /\ outcome.value = resource.embedded[outcome.key]
        ELSE IF requested THEN outcome.err = "none" /\ outcome.value = <<>>
        ELSE outcome.err = "AttributeError"

\* C14: after construction and any sequence of Resource.update calls and
\* attribute assignments, the state of a Resource contains neither the key
\* `_links` nor the key `_embedded`.
C14_NoReservedStateKey ==
    "_links" \notin DOMAIN resource.state /\ "_embedded" \notin DOMAIN resource.state

-----------------------------------------------------------------------------
(* Claims about the DictionaryWrapper *)

\* no plain dict is left in val: every mapping in it, at any depth and inside
\* any list, is a DictionaryWrapper
RECURSIVE AllWrapped(_)
AllWrapped(val) ==
    /\ val.j # "dict"
    /\ val.j = "DictionaryWrapper" => \A i \in 1..Len(val.e) : AllWrapped(val.e[i].val)
    /\ val.j = "list" => \A i \in 1..Len(val.e) : AllWrapped(val.e[i])

\* C15: after construction of a DictionaryWrapper from any mapping and after
\* any sequence of keyed writes, attribute-style writes and update calls, the
\* container is a DictionaryWrapper and so is every mapping reachable from it,
\* through nested mappings or as an element of a sequence value; a keyed write
\* and an attribute-style write of the same key and value leave the container
\* in the same state.
C15_WrappingTransitive ==
    /\ wrapper.j = "DictionaryWrapper"
    /\ AllWrapped(wrapper)
    /\ \A key \in WrapKeys, value \in WrapValues :
           DictionaryWrapper_setattr(wrapper, key, value) =
               DictionaryWrapper_setitem(wrapper, key, value)

\* an attribute-style write stored a list whose first element was a dict
\* holding a list of dicts, over a container built from nested mappings
C15_Witness ==
    /\ outcome.op = "setattribute"
    /\ outcome.value.j = "list"
    /\ outcome.value.e[1].j = "dict"
    /\ Get(wrapper, outcome.key).e[1].j = "DictionaryWrapper"
    /\ Get(Get(wrapper, outcome.key).e[1], "c").e[1].j = "DictionaryWrapper"
    /\ Has(wrapper, "c")

-----------------------------------------------------------------------------
(* Claims about the error conditions of the extractors *)

NoArguments == args = <<>> /\ DOMAIN kwargs = {}

\* C16: value_extraction raises a value error when the template is the empty
\* string and an argument is supplied, and when no positional and no keyed
\* argument is supplied, whatever the template; no other error is raised then.
C16_ValueErrorCases ==
    (pc = "done" /\ op = "value_extraction" /\ (text = "" \/ NoArguments)) =>
        ret.err = "ValueError"

\* C17: key_value_extraction called with no positional and no keyed argument
\* raises a value error, for the empty template and for one with placeholders.
C17_KeyValueNoArguments ==
    (pc = "done" /\ op = "key_value_extraction" /\ NoArguments) =>
        ret.err = "ValueError"

\* the placeholder carries both the explode and the text-limit modifier
Malformed(placeholder) ==
    /\ placeholder # ""
    /\ SubSeq(placeholder, Len(placeholder), Len(placeholder)) = "*"
    /\ Contains(placeholder, ":")

\* C18: when arguments are supplied, both extractors fail with a value error
\* whenever a placeholder of the template carries both `*` and `:<N>`, at
\* whatever position of the comma-separated template it stands.
C18_MalformedAnywhere ==
    (/\ pc = "done"
     /\ op \in {"value_extraction", "key_value_extraction"}
     /\ ~NoArguments
     /\ \E i \in 1..Len(Split(text, ",")) : Malformed(Split(text, ",")[i])) =>
        ret.err = "ValueError"

-----------------------------------------------------------------------------
(* Claims about the operator expanders *)

\* the operator character a placeholder text starts with, "" when none
OperatorOf(placeholder) ==
    IF SubSeq(placeholder, 1, 1) \in {"+", "#", ".", "/", ";", "?", "&"}
    THEN SubSeq(placeholder, 1, 1) ELSE ""

\* the documented table: what goes before the values and what joins them
PrefixFor(c) == IF c \in {"#", "/", ";", "?", "&"} THEN c ELSE ""
DelimiterFor(c) == IF c = "." THEN "." ELSE IF c \in {"?", "&"} THEN "&" ELSE ","
Keyed(c) == c \in {";", "?", "&"}

\* a `name=value` pair, or its bare name when nothing follows the first `=`
BareWhenEmpty(pair) ==
    IF Find(pair, "=", 1) = Len(pair) THEN SubSeq(pair, 1, Len(pair) - 1) ELSE pair

\* a finished expand_placeholder call matches the table over the strings r
\* that the extractor of its operator resolved
MatchesTable(c, r) ==
    (r.err = "none" /\ AllStr(r.values)) =>
        /\ ret.err = "none"
        /\ ret.text = PrefixFor(c) \o
                      Join([i \in 1..Len(r.values) |->
                               IF c = ";" THEN BareWhenEmpty(r.values[i].v[1])
                               ELSE r.values[i].v[1]],
                           DelimiterFor(c))
        /\ ret.args = r.args
        /\ ret.kwargs = r.kwargs

ExtractorFor(c, template) ==
    IF Keyed(c) THEN key_value_extraction(template, args, kwargs)
    ELSE value_extraction(template, args, kwargs)

ExpandedWith(c) == pc = "done" /\ op = "expand_placeholder" /\ OperatorOf(text) = c

\* C19: the fragment expander returns `#` followed by the resolved values
\* joined with `,`, each value's text left intact, and the leftover arguments
\* are those returned by the extraction.
C19_FragmentJoinsValues ==
    ExpandedWith("#") => MatchesTable("#", ExtractorFor("#", From(text, 2)))

\* C20: each operator expander other than `#` produces the documented prefix
\* and delimiter over the values its extractor resolves for the placeholder
\* text without its operator character; for `;` the bare name stands in place
\* of a pair exactly when the value of the pair is empty.
C20_ExpandersMatchTable ==
    (pc = "done" /\ op = "expand_placeholder" /\ OperatorOf(text) # "#") =>
        MatchesTable(OperatorOf(text),
                     ExtractorFor(OperatorOf(text),
                                  From(text, Len(OperatorOf(text)) + 1)))

-----------------------------------------------------------------------------
(* Claims about text_limit and unpack *)

\* s[:n] as Python slices it, for any integer n
SliceTo(str, n) ==
    IF n >= 0 THEN SubSeq(str, 1, IF n < Len(str) THEN n ELSE Len(str))
    ELSE SubSeq(str, 1, IF Len(str) + n > 0 THEN Len(str) + n ELSE 0)

\* C21: text_limit(N, s) returns s[:N] for N>0, returns s[:N] for N<0 (all
\* but the last |N| characters), returns s unchanged for N=0 or unset, and
\* raises a type error if s is not textual.
C21_TextLimitSlices ==
    (pc = "done" /\ op = "text_limit") =>
        IF args[2].t # "str" THEN ret.err = "TypeError"
        ELSE /\ ret.err = "none"
             /\ ret.s = IF args[1].t = "none" \/ args[1].v[1] = 0 THEN args[2].v[1]
                        ELSE SliceTo(args[2].v[1], args[1].v[1])

\* C22: unpack(value, explode) returns, with explode, the elements of a list
\* in order and one `key=value` string per entry of a mapping; without
\* explode, one string of a list's elements joined by `,` and the flat
\* sequence key,value,key,value of a mapping; for any other value the
\* one-element sequence holding it unchanged; the argument is not modified.
C22_UnpackShapes ==
    (pc = "done" /\ op = "unpack") =>
        LET value == args[1]
            explode == args[2].v[1]
            out == ret.values
        IN  /\ ret.err = "none"
            /\ ret.value = value
            /\ (value.t = "list" /\ explode) =>
                   /\ Len(out) = Len(value.v)
                   /\ \A i \in 1..Len(out) : out[i] = PyStr(value.v[i])
            /\ (value.t = "dict" /\ explode) =>
                   /\ 2 * Len(out) = Len(value.v)
                   /\ \A i \in 1..Len(out) :
                          out[i] = PyStr(value.v[2 * i - 1] \o "=" \o value.v[2 * i])
            /\ (value.t = "list" /\ ~explode) =>
                   out = <<PyStr(Join(value.v, ","))>>
            /\ (value.t = "dict" /\ ~explode) =>
                   /\ Len(out) = Len(value.v)
                   /\ \A i \in 1..Len(out) : out[i] = PyStr(value.v[i])
            /\ value.t \notin {"list", "dict"} => out = <<value>>

\* a mapping of two entries was unpacked without explode into four values
C22_Witness ==
    /\ pc = "done" /\ op = "unpack"
    /\ args[1] = PyDict(<<"foo", "bar", "fizz", "buzz">>)
    /\ args[2] = PyBool(FALSE)
    /\ Len(ret.values) = 4

====
